---- MODULE Spec2Model ----
(***************************************************************************)
(* ScholarCite: citation extraction (processCitations), selective          *)
(* rendering (getFilteredCitedText) and selection toggles                  *)
(* (toggleReferenceSelection).                                             *)
(*                                                                         *)
(* A text is a sequence of characters; a character is a one-character      *)
(* string.  The regular expressions of the source are modelled by          *)
(* left-to-right scans that take the leftmost, longest match and continue  *)
(* after it, which is what String.prototype.replace does with the g flag   *)
(* for these patterns.                                                     *)
(***************************************************************************)
EXTENDS Integers, Sequences, FiniteSets, TLC

VARIABLES savedCitations, filteredText, fullResponse, outcome

\* the state of App besides savedCitations; now is what Date.now() returns and
\* inFlight the number of calls of processCitations that have not settled
VARIABLES status, error, selectedSessionTimestamp, now, inFlight

\* the view on the screen and the number of calls of processFile that have
\* not returned
VARIABLES activeMode, uploads

\* the objects behind savedCitations: heap[a] is the object at address a and
\* root the address of the array that is the current value of savedCitations
VARIABLES heap, root

appVars == <<status, error, selectedSessionTimestamp, now, inFlight, activeMode,
            uploads>>

heapVars == <<heap, root>>

\* the updaters passed to setSavedCitations that React has not applied yet,
\* and all updaters passed to it so far
VARIABLES queue, log

queueVars == <<queue, log>>

\* the arguments of the last call of getWordDiff and the spans it returned
VARIABLES oldStr, newStr, diffSpans

diffVars == <<oldStr, newStr, diffSpans>>

\* what the last export handed to downloadFile
VARIABLES download

vars == <<savedCitations, filteredText, fullResponse, outcome, appVars, heapVars,
          queueVars, diffVars, download>>

\* useState(null): no error, no selected session (no timestamp is 0)
Null == "null"

NoTimestamp == 0

\* App as it is mounted
AppAtRest ==
  /\ status = "IDLE"
  /\ error = Null
  /\ selectedSessionTimestamp = NoTimestamp
  /\ now = 1
  /\ inFlight = 0
  /\ activeMode = "SENTENCE"
  /\ uploads = 0

\* no object is tracked
HeapEmpty == heap = <<>> /\ root = 0

\* no updater is waiting and none is recorded
QueueEmpty == queue = <<>> /\ log = <<>>

\* getWordDiff has not been called
NoDiff == oldStr = <<>> /\ newStr = <<>> /\ diffSpans = <<>>

\* nothing has been exported
NoDownload == download = [kind |-> "none"]

(***************************************************************************)
(* Bounds of the model.                                                    *)
(***************************************************************************)
MaxTextLen == 3

(***************************************************************************)
(* Characters.                                                             *)
(***************************************************************************)
\* the characters JavaScript's \s and trim() treat as white space
WhiteSpace == {" ", "\n", "\t"}

IsSpace(c) == c \in WhiteSpace

\* the characters the bounded texts are made of
Alphabet == {" ", ",", ".", "(", ")", "[", "]", "1", "2"}

RECURSIVE SeqsOfLen(_, _)
SeqsOfLen(S, n) ==
  IF n = 0 THEN {<<>>}
  ELSE {Append(s, c) : s \in SeqsOfLen(S, n - 1), c \in S}

SeqsUpTo(S, n) == UNION {SeqsOfLen(S, k) : k \in 0..n}

(***************************************************************************)
(* String helpers.                                                         *)
(***************************************************************************)
\* s.substring(i-1): the characters of s from position i on
Tail_(s, i) == IF i > Len(s) THEN <<>> ELSE SubSeq(s, i, Len(s))

\* does t occur in s at position i
MatchAt(s, t, i) ==
  /\ i + Len(t) - 1 <= Len(s)
  /\ \A k \in 1..Len(t) : s[i + k - 1] = t[k]

\* String.prototype.includes
Includes(s, t) == \E i \in 1..(Len(s) + 1) : MatchAt(s, t, i)

\* the first position at or after i that holds no white space (Len+1 if none)
RECURSIVE SkipSpace(_, _)
SkipSpace(s, i) ==
  IF i > Len(s) \/ ~IsSpace(s[i]) THEN i ELSE SkipSpace(s, i + 1)

RECURSIVE TrimStart(_)
TrimStart(s) ==
  IF s # <<>> /\ IsSpace(s[1]) THEN TrimStart(Tail(s)) ELSE s

RECURSIVE TrimEnd(_)
TrimEnd(s) ==
  IF s # <<>> /\ IsSpace(s[Len(s)]) THEN TrimEnd(SubSeq(s, 1, Len(s) - 1)) ELSE s

\* String.prototype.trim
Trim(s) == TrimEnd(TrimStart(s))

(***************************************************************************)
(* getFilteredCitedText: tag removal.                                      *)
(***************************************************************************)
\* an absent optional field (undefined)
Undefined == <<"undefined">>

\* JavaScript truthiness of an optional string
Truthy(str) == str # Undefined /\ str # <<>>

\* filteredText.split(tag).join(""): the non-overlapping occurrences of tag,
\* found left to right, are dropped in one pass
RECURSIVE SplitJoinFrom(_, _, _)
SplitJoinFrom(s, tag, i) ==
  IF i > Len(s) THEN <<>>
  ELSE IF MatchAt(s, tag, i) THEN SplitJoinFrom(s, tag, i + Len(tag))
  ELSE <<s[i]>> \o SplitJoinFrom(s, tag, i + 1)

SplitJoin(s, tag) == SplitJoinFrom(s, tag, 1)

\* RemoveRef without the trim and the emptiness test of the trimmed tag
RemoveRefUntrimmed(text, ref) ==
  IF ~ref.isSelected /\ Truthy(ref.citationTag)
  THEN SplitJoin(text, ref.citationTag)
  ELSE text

\* the body of the forEach callback, for one reference
RemoveRef(text, ref) ==
  IF ~ref.isSelected /\ Truthy(ref.citationTag)
  THEN LET tag == Trim(ref.citationTag)
       IN IF tag # <<>> THEN SplitJoin(text, tag) ELSE text
  ELSE text

\* references.forEach(...): the references are handled in list order
RECURSIVE RemoveTagsFrom(_, _, _)
RemoveTagsFrom(text, references, i) ==
  IF i > Len(references) THEN text
  ELSE RemoveTagsFrom(RemoveRef(text, references[i]), references, i + 1)

RemoveTags(citedText, references) == RemoveTagsFrom(citedText, references, 1)

(***************************************************************************)
(* getFilteredCitedText: the cleanup chain.                                *)
(***************************************************************************)
\* .replace(/,\s*,/g, ',')
RECURSIVE CollapseCommasFrom(_, _)
CollapseCommasFrom(s, i) ==
  IF i > Len(s) THEN <<>>
  ELSE LET j == SkipSpace(s, i + 1)
       IN IF s[i] = "," /\ j <= Len(s) /\ s[j] = ","
          THEN <<",">> \o CollapseCommasFrom(s, j + 1)
          ELSE <<s[i]>> \o CollapseCommasFrom(s, i + 1)

CollapseCommas(s) == CollapseCommasFrom(s, 1)

\* .replace(/\s{2,}/g, ' ')
RECURSIVE CollapseSpacesFrom(_, _)
CollapseSpacesFrom(s, i) ==
  IF i > Len(s) THEN <<>>
  ELSE IF IsSpace(s[i]) /\ i + 1 <= Len(s) /\ IsSpace(s[i + 1])
  THEN <<" ">> \o CollapseSpacesFrom(s, SkipSpace(s, i))
  ELSE <<s[i]>> \o CollapseSpacesFrom(s, i + 1)

CollapseSpaces(s) == CollapseSpacesFrom(s, 1)

\* .replace(/\(\s*,\s*/g, '(')
RECURSIVE DropCommaAfterOpenFrom(_, _)
DropCommaAfterOpenFrom(s, i) ==
  IF i > Len(s) THEN <<>>
  ELSE LET j == SkipSpace(s, i + 1)
       IN IF s[i] = "(" /\ j <= Len(s) /\ s[j] = ","
          THEN <<"(">> \o DropCommaAfterOpenFrom(s, SkipSpace(s, j + 1))
          ELSE <<s[i]>> \o DropCommaAfterOpenFrom(s, i + 1)

DropCommaAfterOpen(s) == DropCommaAfterOpenFrom(s, 1)

\* .replace(/,\s*\)/g, ')')
RECURSIVE DropCommaBeforeCloseFrom(_, _)
DropCommaBeforeCloseFrom(s, i) ==
  IF i > Len(s) THEN <<>>
  ELSE LET j == SkipSpace(s, i + 1)
       IN IF s[i] = "," /\ j <= Len(s) /\ s[j] = ")"
          THEN <<")">> \o DropCommaBeforeCloseFrom(s, j + 1)
          ELSE <<s[i]>> \o DropCommaBeforeCloseFrom(s, i + 1)

DropCommaBeforeClose(s) == DropCommaBeforeCloseFrom(s, 1)

\* .replace(/\(\s*\)/g, '') and .replace(/\[\s*\]/g, ''): an opening character,
\* white space, the closing character
RECURSIVE DropEmptyGroupFrom(_, _, _, _)
DropEmptyGroupFrom(s, open, close, i) ==
  IF i > Len(s) THEN <<>>
  ELSE LET j == SkipSpace(s, i + 1)
       IN IF s[i] = open /\ j <= Len(s) /\ s[j] = close
          THEN DropEmptyGroupFrom(s, open, close, j + 1)
          ELSE <<s[i]>> \o DropEmptyGroupFrom(s, open, close, i + 1)

DropEmptyParens(s) == DropEmptyGroupFrom(s, "(", ")", 1)

DropEmptyBrackets(s) == DropEmptyGroupFrom(s, "[", "]", 1)

\* .replace(/\s+([.,])/g, '$1')
RECURSIVE DropSpaceBeforePunctFrom(_, _)
DropSpaceBeforePunctFrom(s, i) ==
  IF i > Len(s) THEN <<>>
  ELSE LET j == SkipSpace(s, i)
       IN IF IsSpace(s[i]) /\ j <= Len(s) /\ s[j] \in {".", ","}
          THEN <<s[j]>> \o DropSpaceBeforePunctFrom(s, j + 1)
          ELSE <<s[i]>> \o DropSpaceBeforePunctFrom(s, i + 1)

DropSpaceBeforePunct(s) == DropSpaceBeforePunctFrom(s, 1)

\* Cleanup with the empty groups removed before the commas next to parentheses
CleanupReordered(s) ==
  Trim(DropSpaceBeforePunct(DropCommaBeforeClose(DropCommaAfterOpen(
    DropEmptyBrackets(DropEmptyParens(CollapseSpaces(CollapseCommas(s))))))))

\* the chain of replace calls and the final trim, in source order
Cleanup(s) ==
  Trim(DropSpaceBeforePunct(DropEmptyBrackets(DropEmptyParens(
    DropCommaBeforeClose(DropCommaAfterOpen(CollapseSpaces(CollapseCommas(s))))))))

getFilteredCitedText(citedText, references) ==
  Cleanup(RemoveTags(citedText, references))

(***************************************************************************)
(* processCitations: the response of the generative model is a text whose  *)
(* characters are, besides the single characters above, indivisible runs   *)
(* of letters ("title", "null", "Cited") and the sentinel line.            *)
(***************************************************************************)
Sentinel == "---REFERENCES_START---"

Quote == "\""

\* the three backquotes that open and close a fenced block
Fence == "~~~"

Digits == {"0", "1", "2", "3", "4", "5", "6", "7", "8", "9"}

\* the first position from i on that holds c, 0 when there is none
IndexFrom(s, c, i) ==
  LET hits == {k \in i..Len(s) : s[k] = c}
  IN IF hits = {} THEN 0 ELSE CHOOSE k \in hits : \A h \in hits : k <= h

\* text.indexOf(c), 0 when c does not occur
IndexOf(s, c) == IndexFrom(s, c, 1)

\* the last position up to i that holds c, 0 when there is none
LastIndexFrom(s, c, i) ==
  LET hits == {k \in 1..i : s[k] = c}
  IN IF hits = {} THEN 0 ELSE CHOOSE k \in hits : \A h \in hits : k >= h

\* text.lastIndexOf(c), 0 when c does not occur
LastIndexOf(s, c) == LastIndexFrom(s, c, Len(s))

NoSpan == [found |-> FALSE, first |-> 0, last |-> 0]

\* extractJsonArray: from the first '[' to the last ']' of the text
extractJsonArray(text) ==
  LET firstBracket == IndexOf(text, "[")
      lastBracket == LastIndexOf(text, "]")
  IN IF firstBracket # 0 /\ lastBracket # 0 /\ lastBracket > firstBracket
     THEN [found |-> TRUE, first |-> firstBracket, last |-> lastBracket]
     ELSE NoSpan

SpanText(text, span) == SubSeq(text, span.first, span.last)

\* fullResponse.split(Sentinel): parts[0] and parts[1]
BeforeSentinel(s) == SubSeq(s, 1, IndexOf(s, Sentinel) - 1)

AfterSentinel(s) ==
  LET rest == Tail_(s, IndexOf(s, Sentinel) + 1)
      next == IndexOf(rest, Sentinel)
  IN IF next = 0 THEN rest ELSE SubSeq(rest, 1, next - 1)

\* /Cited Text[:\s]*/i: the two words of the label in any letter case, one
\* space between them, then any run of colons and white space
LabelAt(s, i) ==
  /\ i + 2 <= Len(s)
  /\ s[i] \in {"Cited", "cited", "CITED"}
  /\ s[i + 1] = " "
  /\ s[i + 2] \in {"Text", "text", "TEXT"}

RECURSIVE SkipColonSpace(_, _)
SkipColonSpace(s, i) ==
  IF i > Len(s) \/ ~(s[i] = ":" \/ IsSpace(s[i])) THEN i
  ELSE SkipColonSpace(s, i + 1)

\* the position of the first label from i on, 0 when there is none
LabelFrom(s, i) ==
  LET hits == {k \in i..Len(s) : LabelAt(s, k)}
  IN IF hits = {} THEN 0 ELSE CHOOSE k \in hits : \A h \in hits : k <= h

\* the label stripped only where the text starts with it: the leading label
\* prefix of the specification
StripLabelAnchored(s) ==
  IF LabelAt(s, 1) THEN Tail_(s, SkipColonSpace(s, 4)) ELSE s

\* .replace(/Cited Text[:\s]*/i, ""): the first match, wherever it is
StripLabel(s) ==
  LET i == LabelFrom(s, 1)
  IN IF i = 0 THEN s
     ELSE SubSeq(s, 1, i - 1) \o Tail_(s, SkipColonSpace(s, i + 3))

(***************************************************************************)
(* JSON.parse.  A value is a record [t, v]: v holds the characters of a    *)
(* string or number, the elements of an array, the members of an object.   *)
(* The texts parsed here hold no backslash, sign, fraction or exponent.    *)
(***************************************************************************)
JNull == [t |-> "null", v |-> <<>>]

JUndefined == [t |-> "undefined", v |-> <<>>]

ParseFail == [ok |-> FALSE, val |-> JNull, next |-> 0]

ParseOk(val, next) == [ok |-> TRUE, val |-> val, next |-> next]

\* a string literal that opens at position i
ParseString(s, i) ==
  LET j == IndexFrom(s, Quote, i + 1)
  IN IF j = 0 \/ \E k \in (i + 1)..(j - 1) : s[k] \in {"\n", "\t"}
     THEN ParseFail
     ELSE ParseOk([t |-> "str", v |-> SubSeq(s, i + 1, j - 1)], j + 1)

RECURSIVE SkipDigits(_, _)
SkipDigits(s, i) ==
  IF i > Len(s) \/ s[i] \notin Digits THEN i ELSE SkipDigits(s, i + 1)

\* a number that starts at position i: digits, no leading zero
ParseNumber(s, i) ==
  LET j == SkipDigits(s, i)
  IN IF s[i] = "0" /\ j > i + 1 THEN ParseFail
     ELSE ParseOk([t |-> "num", v |-> SubSeq(s, i, j - 1)], j)

RECURSIVE ParseValue(_, _)
RECURSIVE ParseElements(_, _, _)
RECURSIVE ParseMembers(_, _, _)

\* after an element: position k holds the ']' that closes the array or the
\* ',' before the next element
ElementsNext(s, k, acc) ==
  IF k > Len(s) THEN ParseFail
  ELSE IF s[k] = "]" THEN ParseOk([t |-> "arr", v |-> acc], k + 1)
  ELSE IF s[k] = "," THEN ParseElements(s, SkipSpace(s, k + 1), acc)
  ELSE ParseFail

\* the element r that was read is added to the elements read before it
ElementsAfter(s, r, acc) ==
  IF ~r.ok THEN ParseFail
  ELSE ElementsNext(s, SkipSpace(s, r.next), Append(acc, r.val))

\* the elements of an array, the first of them at position i
ParseElements(s, i, acc) == ElementsAfter(s, ParseValue(s, i), acc)

\* after a member: position k holds the '}' that closes the object or the
\* ',' before the next member
MembersNext(s, k, acc) ==
  IF k > Len(s) THEN ParseFail
  ELSE IF s[k] = "}" THEN ParseOk([t |-> "obj", v |-> acc], k + 1)
  ELSE IF s[k] = "," THEN ParseMembers(s, SkipSpace(s, k + 1), acc)
  ELSE ParseFail

\* the value r that was read for the key is added to the members
MemberValue(s, key, r, acc) ==
  IF ~r.ok THEN ParseFail
  ELSE MembersNext(s, SkipSpace(s, r.next),
                   Append(acc, [k |-> key, val |-> r.val]))

\* position c, after the key, holds the ':' and the value follows it
MemberColon(s, key, c, acc) ==
  IF c > Len(s) \/ s[c] # ":" THEN ParseFail
  ELSE MemberValue(s, key, ParseValue(s, SkipSpace(s, c + 1)), acc)

\* the key that was read as the string literal r
MemberKey(s, r, acc) ==
  IF ~r.ok THEN ParseFail
  ELSE MemberColon(s, r.val.v, SkipSpace(s, r.next), acc)

\* the members of an object, the first key at position i
ParseMembers(s, i, acc) ==
  IF i > Len(s) \/ s[i] # Quote THEN ParseFail
  ELSE MemberKey(s, ParseString(s, i), acc)

\* the value that starts at position i (white space already skipped)
ParseValue(s, i) ==
  IF i > Len(s) THEN ParseFail
  ELSE IF s[i] = "[" THEN
    LET j == SkipSpace(s, i + 1)
    IN IF j <= Len(s) /\ s[j] = "]" THEN ParseOk([t |-> "arr", v |-> <<>>], j + 1)
       ELSE ParseElements(s, j, <<>>)
  ELSE IF s[i] = "{" THEN
    LET j == SkipSpace(s, i + 1)
    IN IF j <= Len(s) /\ s[j] = "}" THEN ParseOk([t |-> "obj", v |-> <<>>], j + 1)
       ELSE ParseMembers(s, j, <<>>)
  ELSE IF s[i] = Quote THEN ParseString(s, i)
  ELSE IF s[i] \in Digits THEN ParseNumber(s, i)
  ELSE IF s[i] = "null" THEN ParseOk(JNull, i + 1)
  ELSE IF s[i] \in {"true", "false"} THEN ParseOk([t |-> "bool", v |-> <<s[i]>>], i + 1)
  ELSE ParseFail

\* JSON.parse(s): ok is FALSE where JSON.parse throws a SyntaxError
\* the value r that was read must be followed by white space only
WholeText(s, r) ==
  IF r.ok /\ SkipSpace(s, r.next) > Len(s) THEN r ELSE ParseFail

JSONParse(s) == WholeText(s, ParseValue(s, SkipSpace(s, 1)))

(***************************************************************************)
(* processCitations: validation of the decoded records.                    *)
(***************************************************************************)
\* ref[key] of a value that is not null: the last member of that name of an
\* object, undefined for everything else
RECURSIVE LastMember(_, _, _)
LastMember(members, key, i) ==
  IF i < 1 THEN JUndefined
  ELSE IF members[i].k = <<key>> THEN members[i].val
  ELSE LastMember(members, key, i - 1)

GetProp(val, key) ==
  IF val.t = "obj" THEN LastMember(val.v, key, Len(val.v)) ELSE JUndefined

\* JavaScript truthiness of a decoded value
TruthyVal(val) ==
  \/ val.t \in {"obj", "arr"}
  \/ val.t = "str" /\ val.v # <<>>
  \/ val.t = "num" /\ \E k \in DOMAIN val.v : val.v[k] # "0"
  \/ val.t = "bool" /\ val.v = <<"true">>

\* the characters of a string field, Undefined when the field is no string
StrOf(val) == IF val.t = "str" THEN val.v ELSE Undefined

RECURSIVE ToNat(_)
ToNat(digits) ==
  IF digits = <<>> THEN 0
  ELSE 10 * ToNat(SubSeq(digits, 1, Len(digits) - 1))
       + (CHOOSE n \in 0..9 : ToString(n) = digits[Len(digits)])

\* the filter callback: ref.title && ref.originalSourceSentence && ref.citationTag
KeepsRecord(ref) ==
  /\ TruthyVal(GetProp(ref, "title"))
  /\ TruthyVal(GetProp(ref, "originalSourceSentence"))
  /\ TruthyVal(GetProp(ref, "citationTag"))

\* the map callback without isSelected: true
ToReferenceDeselected(ref, random) ==
  [id |-> IF TruthyVal(GetProp(ref, "id")) /\ GetProp(ref, "id").t = "num"
          THEN ToNat(GetProp(ref, "id").v) ELSE random,
   title |-> StrOf(GetProp(ref, "title")),
   citationTag |-> StrOf(GetProp(ref, "citationTag")),
   originalSourceSentence |-> StrOf(GetProp(ref, "originalSourceSentence")),
   snippet |-> StrOf(GetProp(ref, "snippet")),
   isSelected |-> FALSE]

\* the map callback: { ...ref, isSelected: true, id: ref.id || random }
ToReference(ref, random) ==
  [id |-> IF TruthyVal(GetProp(ref, "id")) /\ GetProp(ref, "id").t = "num"
          THEN ToNat(GetProp(ref, "id").v) ELSE random,
   title |-> StrOf(GetProp(ref, "title")),
   citationTag |-> StrOf(GetProp(ref, "citationTag")),
   originalSourceSentence |-> StrOf(GetProp(ref, "originalSourceSentence")),
   snippet |-> StrOf(GetProp(ref, "snippet")),
   isSelected |-> TRUE]

RECURSIVE FilterMap(_, _, _)
FilterMap(raw, random, i) ==
  IF i > Len(raw) THEN <<>>
  ELSE IF KeepsRecord(raw[i])
  THEN <<ToReference(raw[i], random[i])>> \o FilterMap(raw, random, i + 1)
  ELSE FilterMap(raw, random, i + 1)

\* the text shown when no narrative was found
NoResultText == <<"(no result)">>

\* rawReferences after the try/catch around JSON.parse: [] unless it parsed
\* let rawReferences: any[] = [], kept when JSON.parse throws
EmptyArray == [t |-> "arr", v |-> <<>>]

ParsedOrEmpty(r) == IF r.ok THEN r.val ELSE EmptyArray

DecodeSpan(text, span) ==
  IF span.found THEN ParsedOrEmpty(JSONParse(SpanText(text, span)))
  ELSE EmptyArray

\* the narrative and the decoded payload of a response
SplitResponse(response) ==
  IF Includes(response, <<Sentinel>>)
  THEN LET payload == AfterSentinel(response)
       IN [citedText |-> Trim(StripLabel(BeforeSentinel(response))),
           rawReferences |-> DecodeSpan(payload, extractJsonArray(payload))]
  ELSE LET span == extractJsonArray(response)
       IN IF span.found
          THEN [citedText |-> Trim(StripLabel(SubSeq(response, 1, span.first - 1))),
                rawReferences |-> DecodeSpan(response, span)]
          ELSE [citedText |-> Trim(response),
                rawReferences |-> EmptyArray]

\* the references and the result built from the narrative and the decoded
\* payload: the filter callback reads a property of every element and
\* throws on null
Validate(input, citedText, raw, random) ==
  IF raw.t = "arr" /\ \E k \in DOMAIN raw.v : raw.v[k].t = "null"
  THEN [kind |-> "rejected"]
  ELSE [kind |-> "resolved",
        originalText |-> input,
        citedText |-> IF citedText # <<>> THEN citedText ELSE NoResultText,
        references |-> IF raw.t = "arr" THEN FilterMap(raw.v, random, 1)
                       ELSE <<>>,
        groundingUrls |-> <<>>]

ValidateSplit(input, split, random) ==
  Validate(input, split.citedText, split.rawReferences, random)

\* what the promise of processCitations settles to for a response
processCitations(input, response, random) ==
  ValidateSplit(input, SplitResponse(response), random)

(***************************************************************************)
(* Sessions and selection toggles.                                         *)
(***************************************************************************)
\* ResultCard: const filteredText = useMemo(() => getFilteredCitedText(...))
RenderAll(sessions) ==
  [i \in DOMAIN sessions |->
     getFilteredCitedText(sessions[i].citedText, sessions[i].references)]

\* an updater that deselects instead of flipping
DeselectIn(prev, sessionTimestamp, refId) ==
  [i \in DOMAIN prev |->
     IF prev[i].timestamp = sessionTimestamp
     THEN [prev[i] EXCEPT !.references =
             [k \in DOMAIN prev[i].references |->
                IF prev[i].references[k].id = refId
                THEN [prev[i].references[k] EXCEPT !.isSelected = FALSE]
                ELSE prev[i].references[k]]]
     ELSE prev[i]]

\* the updater passed to setSavedCitations by toggleReferenceSelection
ToggleIn(prev, sessionTimestamp, refId) ==
  [i \in DOMAIN prev |->
     IF prev[i].timestamp = sessionTimestamp
     THEN [prev[i] EXCEPT !.references =
             [k \in DOMAIN prev[i].references |->
                IF prev[i].references[k].id = refId
                THEN [prev[i].references[k] EXCEPT !.isSelected = ~@]
                ELSE prev[i].references[k]]]
     ELSE prev[i]]

(***************************************************************************)
(* The objects of a toggle.  An object is an array of addresses, a session *)
(* whose references field is the address of an array, or a reference; map  *)
(* and the spread syntax allocate new objects behind the existing ones.    *)
(***************************************************************************)
MaxHeap == 16

\* the heap after an allocation and the address of the new object
Allocated(h, object) == [heap |-> Append(h, object), addr |-> Len(h) + 1]

ArrayOf(items) == [kind |-> "array", items |-> items]

\* the reference toggled where it is
ToggledInPlace(h, a) ==
  [heap |-> [h EXCEPT ![a].isSelected = ~@], addr |-> a]

\* { ...ref, isSelected: !ref.isSelected }
ToggledCopy(h, a) == Allocated(h, [h[a] EXCEPT !.isSelected = ~@])

RECURSIVE MapReferences(_, _, _, _, _)

\* the callback returned the object at r.addr for the reference at place i
MapReferencesNext(r, items, refId, i, acc) ==
  MapReferences(r.heap, items, refId, i + 1, Append(acc, r.addr))

\* session.references.map(ref => ref.id === refId ? {...} : ref)
MapReferences(h, items, refId, i, acc) ==
  IF i > Len(items) THEN Allocated(h, ArrayOf(acc))
  ELSE IF h[items[i]].id = refId
  THEN MapReferencesNext(ToggledCopy(h, items[i]), items, refId, i, acc)
  ELSE MapReferences(h, items, refId, i + 1, Append(acc, items[i]))

\* { ...session, references: the array at r.addr }
WithReferences(r, a) ==
  Allocated(r.heap, [r.heap[a] EXCEPT !.references = r.addr])

SessionCopy(h, a, refId) ==
  WithReferences(MapReferences(h, h[h[a].references].items, refId, 1, <<>>), a)

RECURSIVE MapSessions(_, _, _, _, _, _)

MapSessionsNext(r, items, sessionTimestamp, refId, i, acc) ==
  MapSessions(r.heap, items, sessionTimestamp, refId, i + 1, Append(acc, r.addr))

\* prev.map(session => session.timestamp === sessionTimestamp ? {...} : session)
MapSessions(h, items, sessionTimestamp, refId, i, acc) ==
  IF i > Len(items) THEN Allocated(h, ArrayOf(acc))
  ELSE IF h[items[i]].timestamp = sessionTimestamp
  THEN MapSessionsNext(SessionCopy(h, items[i], refId), items,
                       sessionTimestamp, refId, i, acc)
  ELSE MapSessions(h, items, sessionTimestamp, refId, i + 1,
                   Append(acc, items[i]))

\* the value of the object at address a
RECURSIVE Deref(_, _)
Deref(h, a) ==
  IF h[a].kind = "array"
  THEN [i \in DOMAIN h[a].items |-> Deref(h, h[a].items[i])]
  ELSE IF h[a].kind = "session"
  THEN [timestamp |-> h[a].timestamp, originalText |-> h[a].originalText,
        citedText |-> h[a].citedText, groundingUrls |-> h[a].groundingUrls,
        references |-> Deref(h, h[a].references)]
  ELSE [id |-> h[a].id, citationTag |-> h[a].citationTag,
        isSelected |-> h[a].isSelected]

\* setSavedCitations: the array at r.addr becomes the value of the state
SetSavedCitations(r) ==
  /\ Len(r.heap) <= MaxHeap
  /\ heap' = r.heap
  /\ root' = r.addr

\* the objects of the toggle, where objects are tracked
ToggleObjects(sessionTimestamp, refId) ==
  IF root = 0 THEN UNCHANGED heapVars
  ELSE SetSavedCitations(MapSessions(heap, heap[root].items, sessionTimestamp,
                                     refId, 1, <<>>))

toggleReferenceSelection(sessionTimestamp, refId) ==
  /\ savedCitations' = ToggleIn(savedCitations, sessionTimestamp, refId)
  /\ filteredText' = RenderAll(savedCitations')
  /\ ToggleObjects(sessionTimestamp, refId)
  /\ UNCHANGED <<fullResponse, outcome, appVars, queueVars,
                 diffVars, download>>

(***************************************************************************)
(* The renderer on bounded inputs: one session whose cited text and        *)
(* reference tags are drawn from bounded sets; every reference starts      *)
(* selected, as processCitations creates it.                               *)
(***************************************************************************)
Texts == SeqsUpTo(Alphabet, MaxTextLen)

Tag1 == <<"[", "1", "]">>
Tag2 == <<"[", "2", "]">>
Tag11 == <<"1", "1">>
Tag12 == <<"1", "2">>
Blank == <<" ">>

\* the tag lists tried with every bounded text: usable tags (one of them in
\* need of trimming), a shared tag, and the three kinds of unusable tag
TagLists ==
  { <<>>, <<Tag12>>, <<<<" ", "1">>>>, <<Tag11, Tag12>>, <<Tag12, Tag12>>,
    <<Undefined, Tag12>>, <<Blank, Tag11>>, <<Tag11, <<>>>> }

\* Scenario 1 of the specification: "AI improves outcomes [1] and [2]."
Scenario1Text ==
  <<"A", "I", " ", "i", "m", "p", "r", "o", "v", "e", "s", " ",
    "o", "u", "t", "c", "o", "m", "e", "s", " ", "[", "1", "]", " ",
    "a", "n", "d", " ", "[", "2", "]", ".">>

\* longer inputs, each a cited text with the tags of its references
Scenarios ==
  { [text |-> Scenario1Text, tags |-> <<Tag1, Tag2>>],
    [text |-> <<"a", " ", "(", "1", "1", ",", " ", "1", "2", ")", ".">>,
     tags |-> <<Tag11, Tag12>>],
    [text |-> <<"[", "[", "1", "]", "1", "]">>, tags |-> <<Tag1, Tag1>>],
    [text |-> <<"[", "[", "1", "]", "2", "]">>, tags |-> <<Tag1, Tag2>>],
    [text |-> <<"a", " ", "[", "1", "]", "\n", "[", "1", "]", " ", ".">>,
     tags |-> <<Tag1, Tag1>>] }

NewSession(ts, text, tags) ==
  [timestamp |-> ts, originalText |-> <<>>, citedText |-> text,
   groundingUrls |-> <<>>,
   references |-> [i \in 1..Len(tags) |->
                     [id |-> i, citationTag |-> tags[i], isSelected |-> TRUE]]]

RenderInit ==
  /\ \/ \E text \in Texts, tags \in TagLists :
          savedCitations = <<NewSession(1, text, tags)>>
     \/ \E sc \in Scenarios :
          savedCitations = <<NewSession(1, sc.text, sc.tags)>>
  /\ filteredText = RenderAll(savedCitations)
  /\ fullResponse = <<>>
  /\ outcome = [kind |-> "idle"]
  /\ AppAtRest
  /\ HeapEmpty
  /\ QueueEmpty
  /\ NoDiff
  /\ NoDownload

\* a checkbox of the evidence list, or a call that names no session or no
\* reference (timestamp 0, id 0)
RenderNext ==
  \E ts \in {0} \cup {savedCitations[i].timestamp : i \in DOMAIN savedCitations} :
    \E refId \in {0} \cup UNION {{s.references[k].id : k \in DOMAIN s.references} :
                                  s \in {savedCitations[i] : i \in DOMAIN savedCitations}} :
      toggleReferenceSelection(ts, refId)

SpecRender == RenderInit /\ [][RenderNext]_vars

(***************************************************************************)
(* Toggles on tracked objects: a history of one or two sessions, stored    *)
(* object by object.                                                       *)
(***************************************************************************)
RECURSIVE StoreReferences(_, _, _, _)

StoreReferencesNext(r, references, i, acc) ==
  StoreReferences(r.heap, references, i + 1, Append(acc, r.addr))

StoreReferences(h, references, i, acc) ==
  IF i > Len(references) THEN Allocated(h, ArrayOf(acc))
  ELSE StoreReferencesNext(
         Allocated(h, [kind |-> "reference", id |-> references[i].id,
                       citationTag |-> references[i].citationTag,
                       isSelected |-> references[i].isSelected]),
         references, i, acc)

StoreSession(r, session) ==
  Allocated(r.heap, [kind |-> "session", timestamp |-> session.timestamp,
                     originalText |-> session.originalText,
                     citedText |-> session.citedText,
                     groundingUrls |-> session.groundingUrls,
                     references |-> r.addr])

RECURSIVE StoreSessions(_, _, _, _)

StoreSessionsNext(r, sessions, i, acc) ==
  StoreSessions(r.heap, sessions, i + 1, Append(acc, r.addr))

StoreSessions(h, sessions, i, acc) ==
  IF i > Len(sessions) THEN Allocated(h, ArrayOf(acc))
  ELSE StoreSessionsNext(
         StoreSession(StoreReferences(h, sessions[i].references, 1, <<>>),
                      sessions[i]),
         sessions, i, acc)

\* the histories toggled: two sessions, one session, and two sessions that
\* were given the same timestamp
Histories ==
  { <<NewSession(2, <<"a", " ", "[", "1", "]">>, <<Tag1, Tag2>>),
      NewSession(1, <<"[", "1", "]">>, <<Tag1>>)>>,
    <<NewSession(1, <<"[", "[", "1", "]", "1", "]">>, <<Tag1, Tag1>>)>>,
    <<NewSession(1, <<"a", " ", "[", "1", "]">>, <<Tag1, Tag2>>),
      NewSession(1, <<"[", "1", "]">>, <<Tag1>>)>> }

HeapStored(r) == heap = r.heap /\ root = r.addr

HeapInit ==
  /\ savedCitations \in Histories
  /\ filteredText = RenderAll(savedCitations)
  /\ HeapStored(StoreSessions(<<>>, savedCitations, 1, <<>>))
  /\ fullResponse = <<>>
  /\ outcome = [kind |-> "idle"]
  /\ AppAtRest
  /\ QueueEmpty
  /\ NoDiff
  /\ NoDownload

HeapNext == RenderNext

SpecHeap == HeapInit /\ [][HeapNext]_vars

(***************************************************************************)
(* processCitations on bounded responses: a narrative, with or without the *)
(* sentinel, then a payload with or without text around it.                *)
(***************************************************************************)
MaxElems == 2

JStr(chars) == <<Quote>> \o chars \o <<Quote>>

Member(key, value) == JStr(<<key>>) \o <<":", " ">> \o value

RECURSIVE JoinWithComma(_)
JoinWithComma(items) ==
  IF items = <<>> THEN <<>>
  ELSE IF Len(items) = 1 THEN items[1]
  ELSE items[1] \o <<",", " ">> \o JoinWithComma(Tail(items))

JObject(members) == <<"{">> \o JoinWithComma(members) \o <<"}">>

JArray(elements) == <<"[">> \o JoinWithComma(elements) \o <<"]">>

\* Scenario 3: a title with brackets inside the string
DraftTitle == <<"A", " ", "[", "draft", "]", " ", "Study">>

RecDraft ==
  JObject(<<Member("id", <<"1">>), Member("title", JStr(DraftTitle)),
            Member("citationTag", JStr(Tag1)),
            Member("originalSourceSentence", JStr(<<"S">>))>>)

\* evidence in snippet only, and an id already used by RecDraft
RecSnippet ==
  JObject(<<Member("id", <<"1">>), Member("title", JStr(<<"B">>)),
            Member("citationTag", JStr(Tag2)),
            Member("snippet", JStr(<<"P">>))>>)

\* no id, blank tag
RecNoId ==
  JObject(<<Member("title", JStr(<<"C">>)),
            Member("citationTag", JStr(Blank)),
            Member("originalSourceSentence", JStr(<<"S">>))>>)

\* no title
RecNoTitle ==
  JObject(<<Member("id", <<"2">>), Member("title", JStr(<<>>)),
            Member("citationTag", JStr(Tag2)),
            Member("originalSourceSentence", JStr(<<"S">>))>>)

Elements == {RecDraft, RecSnippet, RecNoId, RecNoTitle, <<"null">>, <<"5">>}

Payloads ==
  {JArray(elements) : elements \in SeqsUpTo(Elements, MaxElems)}
    \cup { <<>>,
           <<"not", " ", "json">>,
           <<"[", "not", " ", "json", "]">>,
           JObject(<<Member("refs", JArray(<<RecDraft>>))>>),
           <<"[">> \o RecDraft }

\* the text around the payload: none, a fenced block, prose after it, prose
\* before it
Wrappers ==
  { [pre |-> <<>>, post |-> <<>>],
    [pre |-> <<Fence, "json", "\n">>, post |-> <<"\n", Fence>>],
    [pre |-> <<>>, post |-> <<"\n", "(", "see", " ", "[", "2", "]", ")">>],
    [pre |-> <<"Refs", " ", "[", "list", "]", ":", " ">>, post |-> <<>>] }

Narratives ==
  { <<>>,
    <<"A", ".">>,
    <<" ", "A", " ", "[", "1", "]", ".">>,
    <<"Cited", " ", "Text", ":", " ", "A", " ", "[", "1", "]", ".">>,
    <<"The", " ", "cited", " ", "text", ":", " ", "A", ".">>,
    <<"Cited", " ", "Text", ":", " ", "cited", " ", "text", ":", " ", "A", ".">> }

Separators == {<<"\n", Sentinel, "\n">>, <<"\n">>}

Responses ==
  {n \o sep \o w.pre \o p \o w.post :
     n \in Narratives, sep \in Separators, w \in Wrappers, p \in Payloads}

\* the user's input
InputText == <<"A">>

\* Math.floor(Math.random() * 1000)
RandomRange == 1000

\* the random ids tried: the ends of the range and an id a record may carry
RandomIds == {0, 1, RandomRange - 1}

\* the request is in flight and the model has answered fullResponse
ParseInit ==
  /\ fullResponse \in Responses
  /\ outcome = [kind |-> "pending"]
  /\ savedCitations = <<>>
  /\ filteredText = <<>>
  /\ AppAtRest
  /\ HeapEmpty
  /\ QueueEmpty
  /\ NoDiff
  /\ NoDownload

\* the promise of processCitations settles
Settle ==
  /\ outcome.kind = "pending"
  /\ \E random \in [1..(MaxElems + 1) -> RandomIds] :
       outcome' = processCitations(InputText, fullResponse, random)
  /\ UNCHANGED <<savedCitations, filteredText, fullResponse, appVars, heapVars, queueVars,
                 diffVars, download>>

ParseNext == Settle

SpecParse == ParseInit /\ [][ParseNext]_vars

(***************************************************************************)
(* App: cite actions, session selection and selection toggles.  A cite     *)
(* action runs up to the await of processCitations and resumes when the    *)
(* promise settles; several calls can be in flight, because the button of  *)
(* the sentence view is disabled only while status is SEARCHING and         *)
(* processFile sets status while a search runs.                            *)
(***************************************************************************)
MaxSessions == 2

MaxClock == 2

MaxUploads == 1

\* a second record, cited as [2]
RecSecond ==
  JObject(<<Member("id", <<"2">>), Member("title", JStr(<<"B">>)),
            Member("citationTag", JStr(Tag2)),
            Member("originalSourceSentence", JStr(<<"S">>))>>)

\* what the generative model answers: one cited record, two cited records,
\* and an array with a null element
AppResponses ==
  { <<"Cited", " ", "Text", ":", " ", "A", " ", "[", "1", "]", ".">>
      \o <<"\n", Sentinel, "\n">> \o JArray(<<RecDraft>>),
    <<"B", " ", "(", "[", "1", "]", ",", " ", "[", "2", "]", ")", ".">>
      \o <<"\n", Sentinel, "\n">> \o JArray(<<RecDraft, RecSecond>>),
    <<"A", ".">> \o <<"\n", Sentinel, "\n">> \o JArray(<<<<"null">>>>) }

\* the messages of the errors the call of the generative model fails with
ApiFailures == {"quota exceeded", ""}

\* err.message || the fixed message
DefaultError == "(analysis failed)"

ErrorMessage(message) == IF message = "" THEN DefaultError ELSE message

\* what is typed into the input box
InputTexts == {InputText, Blank}

\* the entries of the menu
Modes == {"SENTENCE", "PDF", "RESOURCES", "COMPARE"}

\* a click on an entry of the menu
setActiveMode(mode) ==
  /\ mode # activeMode
  /\ activeMode' = mode
  /\ UNCHANGED <<savedCitations, filteredText, fullResponse, outcome, status,
                 error, selectedSessionTimestamp, now, inFlight, uploads,
                 heapVars, queueVars, diffVars, download>>

\* processFile up to its first await; the file input is in the header of the
\* PDF view
processFile ==
  /\ activeMode = "PDF"
  /\ uploads < MaxUploads
  /\ status' = "UPLOADING"
  /\ error' = Null
  /\ uploads' = uploads + 1
  /\ UNCHANGED <<savedCitations, filteredText, fullResponse, outcome,
                 selectedSessionTimestamp, now, inFlight, activeMode,
                 heapVars, queueVars, diffVars, download>>

UploadError == "(PDF failed)"

\* processFile resumes: the pages were read, or reading them failed
processFileResumes ==
  /\ uploads > 0
  /\ uploads' = uploads - 1
  /\ \/ activeMode' = "PDF" /\ status' = "IDLE" /\ UNCHANGED error
     \/ error' = UploadError /\ status' = "ERROR" /\ UNCHANGED activeMode
  /\ UNCHANGED <<savedCitations, filteredText, fullResponse, outcome,
                 selectedSessionTimestamp, now, inFlight,
                 heapVars, queueVars, diffVars, download>>

\* inputRef.current?.innerHTML || "": the editable box exists in the sentence
\* view only
InnerHTML(content) == IF activeMode = "SENTENCE" THEN content ELSE <<>>

\* handleCiteAction up to the await, called with what the editable box
\* holds; the button of the sentence view is disabled while status is
\* SEARCHING, the button of the PDF view (shown once a paragraph is picked)
\* never
handleCiteAction(button, content) ==
  /\ activeMode = button
  /\ button = "SENTENCE" => status # "SEARCHING"
  /\ Len(savedCitations) + inFlight < MaxSessions
  /\ IF Trim(InnerHTML(content)) = <<>>
     THEN UNCHANGED vars
     ELSE /\ status' = "SEARCHING"
          /\ error' = Null
          /\ inFlight' = inFlight + 1
          /\ UNCHANGED <<savedCitations, filteredText, fullResponse, outcome,
                         selectedSessionTimestamp, now, activeMode, uploads,
                         heapVars, queueVars, diffVars, download>>

\* const newCitation = { ...data, timestamp: Date.now() }
NewCitation(data, timestamp) ==
  [timestamp |-> timestamp, originalText |-> data.originalText,
   citedText |-> data.citedText, references |-> data.references,
   groundingUrls |-> data.groundingUrls]

\* the try block with the new session put behind the others
CiteResolvedAtEnd(data) ==
  /\ savedCitations' = Append(savedCitations, NewCitation(data, now))
  /\ selectedSessionTimestamp' = now
  /\ status' = "COMPLETED"
  /\ inFlight' = inFlight - 1
  /\ filteredText' = RenderAll(savedCitations')
  /\ UNCHANGED <<error, now, fullResponse, activeMode, uploads, heapVars,
                 queueVars, diffVars, download>>

\* the try block after the await
CiteResolved(data) ==
  /\ savedCitations' = <<NewCitation(data, now)>> \o savedCitations
  /\ selectedSessionTimestamp' = now
  /\ status' = "COMPLETED"
  /\ inFlight' = inFlight - 1
  /\ filteredText' = RenderAll(savedCitations')
  /\ UNCHANGED <<error, now, fullResponse, activeMode, uploads, heapVars,
                 queueVars, diffVars, download>>

\* a catch block that also forgets which session is selected
CiteRejectedResets(message) ==
  /\ error' = ErrorMessage(message)
  /\ status' = "ERROR"
  /\ inFlight' = inFlight - 1
  /\ selectedSessionTimestamp' = NoTimestamp
  /\ UNCHANGED <<savedCitations, filteredText, now, fullResponse, activeMode,
                 uploads, heapVars, queueVars, diffVars, download>>

\* the catch block
CiteRejected(message) ==
  /\ error' = ErrorMessage(message)
  /\ status' = "ERROR"
  /\ inFlight' = inFlight - 1
  /\ UNCHANGED <<savedCitations, filteredText, selectedSessionTimestamp, now,
                 fullResponse, activeMode, uploads, heapVars, queueVars,
                 diffVars, download>>

\* the promise of processCitations settles to outcome and the handler goes
\* on in its try block or in its catch block
CiteSettled(data) ==
  /\ outcome' = data
  /\ IF data.kind = "resolved" THEN CiteResolved(data)
     ELSE CiteRejected("Cannot read properties of null")

\* one value of Math.random() for every element of the decoded array
RandomsFor(response) ==
  [1..Len(SplitResponse(response).rawReferences.v) -> RandomIds]

\* handleCiteAction resumes: the call failed, or the model answered and
\* processCitations resolved or threw
handleCiteActionResumes ==
  /\ inFlight > 0
  /\ \/ \E message \in ApiFailures :
          outcome' = [kind |-> "rejected"] /\ CiteRejected(message)
     \/ \E response \in AppResponses :
          \E random \in RandomsFor(response) :
            CiteSettled(processCitations(InputText, response, random))

\* time passes between two readings of Date.now()
Tick ==
  /\ now < MaxClock
  /\ now' = now + 1
  /\ UNCHANGED <<savedCitations, filteredText, fullResponse, outcome, status,
                 error, selectedSessionTimestamp, inFlight, activeMode,
                 uploads, heapVars, queueVars, diffVars, download>>

\* a click on a session of the history list of the resources view
selectSession(timestamp) ==
  /\ activeMode = "RESOURCES"
  /\ selectedSessionTimestamp' = timestamp
  /\ UNCHANGED <<savedCitations, filteredText, fullResponse, outcome, status,
                 error, now, inFlight, activeMode, uploads, heapVars,
                 queueVars, diffVars, download>>

\* the close button of the error banner
dismissError ==
  /\ error # Null
  /\ error' = Null
  /\ UNCHANGED <<savedCitations, filteredText, fullResponse, outcome, status,
                 selectedSessionTimestamp, now, inFlight, activeMode,
                 uploads, heapVars, queueVars, diffVars, download>>

\* the places of the sessions that carry the timestamp
PlacesOf(sessions, timestamp) ==
  {i \in DOMAIN sessions : sessions[i].timestamp = timestamp}

\* activeSession, as its place in savedCitations; 0 when there is none
ActivePlace(sessions, selected) ==
  IF sessions = <<>> THEN 0
  ELSE IF selected = NoTimestamp \/ PlacesOf(sessions, selected) = {} THEN 1
  ELSE CHOOSE i \in PlacesOf(sessions, selected) :
         \A j \in PlacesOf(sessions, selected) : i <= j

\* a checkbox of the evidence list of the active session, in the resources
\* view
ToggleActive(place) ==
  /\ activeMode = "RESOURCES"
  /\ place # 0
  /\ \E k \in DOMAIN savedCitations[place].references :
       toggleReferenceSelection(savedCitations[place].timestamp,
                                savedCitations[place].references[k].id)

AppInit ==
  /\ savedCitations = <<>>
  /\ filteredText = <<>>
  /\ fullResponse = <<>>
  /\ outcome = [kind |-> "idle"]
  /\ AppAtRest
  /\ HeapEmpty
  /\ QueueEmpty
  /\ NoDiff
  /\ NoDownload

AppNext ==
  \/ \E button \in {"SENTENCE", "PDF"}, content \in InputTexts :
       handleCiteAction(button, content)
  \/ handleCiteActionResumes
  \/ \E mode \in Modes : setActiveMode(mode)
  \/ processFile
  \/ processFileResumes
  \/ Tick
  \/ \E i \in DOMAIN savedCitations : selectSession(savedCitations[i].timestamp)
  \/ dismissError
  \/ ToggleActive(ActivePlace(savedCitations, selectedSessionTimestamp))

SpecApp == AppInit /\ [][AppNext]_vars

\* App while no file is uploaded
CiteNext ==
  \/ \E button \in {"SENTENCE", "PDF"}, content \in InputTexts :
       handleCiteAction(button, content)
  \/ handleCiteActionResumes
  \/ \E mode \in Modes : setActiveMode(mode)
  \/ Tick
  \/ \E i \in DOMAIN savedCitations : selectSession(savedCitations[i].timestamp)
  \/ dismissError
  \/ ToggleActive(ActivePlace(savedCitations, selectedSessionTimestamp))

SpecCite == AppInit /\ [][CiteNext]_vars

(***************************************************************************)
(* Queued updates.  setSavedCitations is called with an updater function;  *)
(* React keeps the updaters in a queue and, when it renders, applies them  *)
(* in order, each to the result of the one before.  Toggles and cite       *)
(* completions may be queued in any number and order before a render.      *)
(***************************************************************************)
MaxIssued == 4

\* the history the updates start from
QueueHistory ==
  <<NewSession(1, <<"a", " ", "[", "1", "]", " ", "[", "2", "]">>, <<Tag1, Tag2>>)>>

\* the session a cite action creates at time timestamp
QueueCitation(timestamp) == NewSession(timestamp, <<"[", "1", "]">>, <<Tag1>>)

\* prev => prev.map(...) of a toggle, prev => [newCitation, ...prev] of a cite
ApplyUpdate(prev, update) ==
  IF update.kind = "toggle"
  THEN ToggleIn(prev, update.timestamp, update.id)
  ELSE <<update.session>> \o prev

\* the queue applied front to back
RECURSIVE ApplyUpdates(_, _)
ApplyUpdates(prev, updates) ==
  IF updates = <<>> THEN prev
  ELSE ApplyUpdates(ApplyUpdate(prev, Head(updates)), Tail(updates))

\* setSavedCitations(updater)
EnqueueUpdate(update) ==
  /\ Len(log) < MaxIssued
  /\ queue' = Append(queue, update)
  /\ log' = Append(log, update)
  /\ UNCHANGED <<savedCitations, filteredText, fullResponse, outcome, appVars,
                 heapVars, diffVars, download>>

\* a checkbox of a session that is on the screen; the update records the card
\* (counted from the oldest session) and the checkbox that was clicked
QueueToggle ==
  \E i \in DOMAIN savedCitations : \E k \in DOMAIN savedCitations[i].references :
    EnqueueUpdate([kind |-> "toggle", seen |-> savedCitations,
                   card |-> Len(savedCitations) - i, box |-> k,
                   timestamp |-> savedCitations[i].timestamp,
                   id |-> savedCitations[i].references[k].id])

\* a cite action completes
QueueCite ==
  EnqueueUpdate([kind |-> "cite", seen |-> savedCitations,
                 session |-> QueueCitation(now)])

\* React renders: the queued updaters are applied and the cards rendered
Render ==
  /\ queue # <<>>
  /\ savedCitations' = ApplyUpdates(savedCitations, queue)
  /\ filteredText' = RenderAll(savedCitations')
  /\ queue' = <<>>
  /\ UNCHANGED <<log, fullResponse, outcome, appVars, heapVars, diffVars,
                 download>>

QueueInit ==
  /\ savedCitations = QueueHistory
  /\ filteredText = RenderAll(savedCitations)
  /\ fullResponse = <<>>
  /\ outcome = [kind |-> "idle"]
  /\ AppAtRest
  /\ HeapEmpty
  /\ QueueEmpty
  /\ NoDiff
  /\ NoDownload

QueueNext == QueueToggle \/ QueueCite \/ Render \/ Tick

SpecQueue == QueueInit /\ [][QueueNext]_vars

(***************************************************************************)
(* getWordDiff: the word-level highlighting of the comparison view.        *)
(***************************************************************************)
MaxDiffLen == 3

Letters == {"a", "b"}

\* a start tag "<b" or an end tag "</b" begins at position i; the other forms
\* of markup ("<!", "<?", "</" before something that is no letter) need
\* characters the bounded texts do not combine
StartTagAt(html, i) ==
  /\ i + 1 <= Len(html)
  /\ html[i] = "<"
  /\ html[i + 1] \in Letters

EndTagAt(html, i) ==
  /\ i + 2 <= Len(html)
  /\ html[i] = "<"
  /\ html[i + 1] = "/"
  /\ html[i + 2] \in Letters

\* the position after the tag that begins at i: after its ">", or the end of
\* the text when the tag is never closed (the tokenizer drops such a tag)
AfterTag(html, i) ==
  IF \E k \in i..Len(html) : html[k] = ">"
  THEN (CHOOSE k \in i..Len(html) :
          html[k] = ">" /\ \A m \in i..(k - 1) : html[m] # ">") + 1
  ELSE Len(html) + 1

\* before the body is opened the parser ignores white space and stray end
\* tags: the position of the first start tag or other character
RECURSIVE BodyStart(_, _)
BodyStart(html, i) ==
  IF i > Len(html) THEN i
  ELSE IF IsSpace(html[i]) THEN BodyStart(html, i + 1)
  ELSE IF EndTagAt(html, i) THEN BodyStart(html, AfterTag(html, i))
  ELSE i

\* the character data of the body from position i on
RECURSIVE TextContent(_, _)
TextContent(html, i) ==
  IF i > Len(html) THEN <<>>
  ELSE IF StartTagAt(html, i) \/ EndTagAt(html, i)
       THEN TextContent(html, AfterTag(html, i))
  ELSE <<html[i]>> \o TextContent(html, i + 1)

\* new DOMParser().parseFromString(html, 'text/html').body.textContent || ""
stripHtml(html) == TextContent(html, BodyStart(html, 1))

\* the first position at or after i that holds white space (Len+1 if none)
RECURSIVE WordEnd(_, _)
WordEnd(s, i) ==
  IF i > Len(s) \/ IsSpace(s[i]) THEN i ELSE WordEnd(s, i + 1)

\* str.split(/(\s+)/) from position i on: a word (empty when white space
\* stands at i or the text ends there), then the run of white space after it
\* and the rest
RECURSIVE SplitFrom(_, _)
SplitNext(s, i, e) ==
  IF e > Len(s) THEN <<SubSeq(s, i, Len(s))>>
  ELSE <<SubSeq(s, i, e - 1), SubSeq(s, e, SkipSpace(s, e) - 1)>>
         \o SplitFrom(s, SkipSpace(s, e))

SplitFrom(s, i) == SplitNext(s, i, WordEnd(s, i))

\* str.split(/(\s+)/)
SplitWhiteSpace(s) == SplitFrom(s, 1)

\* a baseline that is split with its markup
OldWordsRaw(old) == SplitWhiteSpace(old)

\* oldWords
OldWords(old) == SplitWhiteSpace(stripHtml(old))

\* newWords
NewWords(new) == SplitWhiteSpace(stripHtml(new))

\* the classes of the spans
Plain == "none"

Unchanged == "text-slate-600"

Added == "bg-emerald-100"

\* a word is unchanged when the baseline holds it at the same place
ClassByPlace(word, i, oldWords) ==
  IF Trim(word) = <<>> THEN Plain
  ELSE IF i \in DOMAIN oldWords /\ oldWords[i] = word THEN Unchanged
  ELSE Added

\* the callback of newWords.map
ClassOf(word, i, oldWords) ==
  IF Trim(word) = <<>> THEN Plain
  ELSE IF \E j \in DOMAIN oldWords : oldWords[j] = word THEN Unchanged
  ELSE Added

\* newWords.map(...)
MapWords(newWords, oldWords) ==
  [i \in DOMAIN newWords |->
     [word |-> newWords[i], className |-> ClassOf(newWords[i], i, oldWords)]]

getWordDiff(old, new) ==
  IF old = <<>> \/ new = <<>> THEN <<[word |-> new, className |-> Plain]>>
  ELSE MapWords(NewWords(new), OldWords(old))

\* the texts getWordDiff is called with
DiffAlphabet == Letters \cup {" ", "<", ">"}

DiffSamples ==
  { <<"a", "<", "b", ">">>,
    <<"<", "b", ">", "a", "<", "/", "b", ">", " ", "b">>,
    <<"<", "/", "b", ">", " ", "a">>,
    <<"a", " ", " ", "b", " ">>,
    <<"b", " ", "a", "\t", "a", "b">> }

DiffTexts == SeqsUpTo(DiffAlphabet, MaxDiffLen) \cup DiffSamples

\* the comparison view renders getWordDiff(res.originalText, res.citedText)
CallGetWordDiff ==
  /\ diffSpans = <<>>
  /\ diffSpans' = getWordDiff(oldStr, newStr)
  /\ UNCHANGED <<savedCitations, filteredText, fullResponse, outcome, appVars,
                 heapVars, queueVars, oldStr, newStr, download>>

DiffInit ==
  /\ savedCitations = <<>>
  /\ filteredText = <<>>
  /\ fullResponse = <<>>
  /\ outcome = [kind |-> "idle"]
  /\ AppAtRest
  /\ HeapEmpty
  /\ QueueEmpty
  /\ NoDownload
  /\ oldStr \in DiffTexts
  /\ newStr \in DiffTexts
  /\ diffSpans = <<>>

DiffNext == CallGetWordDiff

SpecDiff == DiffInit /\ [][DiffNext]_vars

(***************************************************************************)
(* Exports: the evidence documents of the resources view and the EndNote   *)
(* file of a result card.  generateEvidenceMD and generateEvidenceDoc are  *)
(* imported from ./utils/exportEvidence; a download of theirs is recorded  *)
(* by the sessions they are handed.                                        *)
(***************************************************************************)
\* references as they are handed to an export that takes them all
AllOf(references) == references

\* references.filter(r => r.isSelected)
SelectedOf(references) == SelectSeq(references, LAMBDA r : r.isSelected)

\* targets: the active session for scope SELECTED, all sessions for ALL
Targets(scope) ==
  IF scope = "SELECTED"
  THEN IF ActivePlace(savedCitations, selectedSessionTimestamp) = 0 THEN <<>>
       ELSE <<savedCitations[ActivePlace(savedCitations, selectedSessionTimestamp)]>>
  ELSE savedCitations

\* targets.map(...).filter(t => t.references.length > 0)
FilteredTargets(targets) ==
  SelectSeq([i \in DOMAIN targets |->
               [targets[i] EXCEPT !.references = SelectedOf(@)]],
            LAMBDA t : t.references # <<>>)

\* the rest of handleExportResources
ExportTargets(format, scope, filteredTargets) ==
  IF filteredTargets = <<>> THEN UNCHANGED vars
  ELSE /\ download' = [kind |-> "evidence", format |-> format, scope |-> scope,
                       time |-> now, targets |-> filteredTargets]
       /\ UNCHANGED <<savedCitations, filteredText, fullResponse, outcome, appVars,
                      heapVars, queueVars, diffVars>>

\* the buttons of the resources view call it with scope SELECTED
handleExportResources(format, scope) ==
  /\ activeMode = "RESOURCES"
  /\ savedCitations # <<>>
  /\ ExportTargets(format, scope, FilteredTargets(Targets(scope)))

\* `${ref.title}`: a field that is absent reads undefined
Field(ref, name) == IF name \in DOMAIN ref THEN ref[name] ELSE Undefined

NewLine == "\n"

\* the lines generateENW writes for one reference
EnwRecord(ref) ==
  <<"%0 Journal Article", NewLine>>
    \o <<"%T ">> \o Field(ref, "title") \o <<NewLine>>
    \o <<"%A ">> \o Field(ref, "authors") \o <<NewLine>>
    \o <<"%D ">> \o Field(ref, "year") \o <<NewLine>>
    \o <<"%J ">> \o Field(ref, "journal") \o <<NewLine>>
    \o <<"%U ">> \o Field(ref, "url") \o <<NewLine>>
    \o <<NewLine>>

RECURSIVE generateENW(_)
generateENW(references) ==
  IF references = <<>> THEN <<>>
  ELSE EnwRecord(Head(references)) \o generateENW(Tail(references))

\* the Export .ENW button of the result card of the session at place i; the
\* cards are shown in the sentence view and in the PDF view
exportENW(i) ==
  /\ activeMode \in {"SENTENCE", "PDF"}
  /\ download' = [kind |-> "enw", time |-> savedCitations[i].timestamp,
                  content |-> generateENW(SelectedOf(savedCitations[i].references))]
  /\ UNCHANGED <<savedCitations, filteredText, fullResponse, outcome, appVars,
                 heapVars, queueVars, diffVars>>

\* a session with one reference for every title
TitledSession(ts, titles) ==
  [timestamp |-> ts, originalText |-> <<>>,
   citedText |-> <<"a">>, groundingUrls |-> <<>>,
   references |-> [i \in 1..Len(titles) |->
                     [id |-> i, title |-> titles[i],
                      citationTag |-> <<"[", <<"1", "2", "3">>[i], "]">>,
                      isSelected |-> TRUE]]]

ExportHistories ==
  { <<TitledSession(1, <<<<"A">>, <<"B">>, <<"C">>>>)>>,
    <<TitledSession(2, <<<<"A">>, <<"B">>>>), TitledSession(1, <<<<"C">>>>)>> }

ExportInit ==
  /\ savedCitations \in ExportHistories
  /\ filteredText = RenderAll(savedCitations)
  /\ fullResponse = <<>>
  /\ outcome = [kind |-> "idle"]
  /\ AppAtRest
  /\ HeapEmpty
  /\ QueueEmpty
  /\ NoDiff
  /\ NoDownload

ExportNext ==
  \/ \E mode \in Modes : setActiveMode(mode)
  \/ \E i \in DOMAIN savedCitations : selectSession(savedCitations[i].timestamp)
  \/ ToggleActive(ActivePlace(savedCitations, selectedSessionTimestamp))
  \/ \E format \in {"MD", "DOC"}, scope \in {"SELECTED", "ALL"} :
       handleExportResources(format, scope)
  \/ \E i \in DOMAIN savedCitations : exportENW(i)

SpecExport == ExportInit /\ [][ExportNext]_vars

(***************************************************************************)
(* Properties of the selective renderer.                                   *)
(***************************************************************************)
Sessions == {savedCitations[i] : i \in DOMAIN savedCitations}

\* the tag getFilteredCitedText looks for, <<>> when the reference has none
EffectiveTag(ref) ==
  IF Truthy(ref.citationTag) THEN Trim(ref.citationTag) ELSE <<>>

Usable(ref) == EffectiveTag(ref) # <<>>

\* C1: rendering the rendered text again, with the same references, changes
\* nothing
RenderIdempotent ==
  \A i \in DOMAIN savedCitations :
    getFilteredCitedText(filteredText[i], savedCitations[i].references)
      = filteredText[i]

Orders(n) ==
  {p \in [1..n -> 1..n] : \A a, b \in 1..n : p[a] = p[b] => a = b}

\* no tag of the list is a substring of the tag of another reference
NoTagInsideAnother(references) ==
  \A a, b \in DOMAIN references :
    (a # b /\ Usable(references[a]) /\ Usable(references[b]))
      => ~Includes(EffectiveTag(references[a]), EffectiveTag(references[b]))

\* C2: when no tag is a substring of another, every order of the reference
\* list renders the same text
RemovalOrderIrrelevant ==
  \A s \in Sessions :
    NoTagInsideAnother(s.references) =>
      \A p \in Orders(Len(s.references)) :
        getFilteredCitedText(s.citedText,
                             [k \in DOMAIN s.references |-> s.references[p[k]]])
          = getFilteredCitedText(s.citedText, s.references)

Scenario1Rendered ==
  <<"A", "I", " ", "i", "m", "p", "r", "o", "v", "e", "s", " ",
    "o", "u", "t", "c", "o", "m", "e", "s", " ",
    "a", "n", "d", " ", "[", "2", "]", ".">>

\* Scenario 1: [1] deselected and [2] selected
Scenario1Holds ==
  \A i \in DOMAIN savedCitations :
    LET s == savedCitations[i]
    IN (/\ s.citedText = Scenario1Text
        /\ ~s.references[1].isSelected
        /\ s.references[2].isSelected) => filteredText[i] = Scenario1Rendered

\* C3: the text handed to the cleanup step holds no occurrence of the tag of
\* a deselected reference, and Scenario 1 renders as stated
DeselectedTagsRemoved ==
  /\ \A s \in Sessions : \A k \in DOMAIN s.references :
       (~s.references[k].isSelected /\ Usable(s.references[k]))
         => ~Includes(RemoveTags(s.citedText, s.references),
                      EffectiveTag(s.references[k]))
  /\ Scenario1Holds

\* the cleanup transforms of the specification, (a) to (f)
CleanupStep(name, s) ==
  CASE name = "a" -> CollapseCommas(s)
    [] name = "b" -> CollapseSpaces(s)
    [] name = "c" -> DropCommaBeforeClose(DropCommaAfterOpen(s))
    [] name = "d" -> DropEmptyBrackets(DropEmptyParens(s))
    [] name = "e" -> DropSpaceBeforePunct(s)
    [] name = "f" -> Trim(s)

RECURSIVE ApplySteps(_, _)
ApplySteps(names, s) ==
  IF names = <<>> THEN s
  ELSE ApplySteps(Tail(names), CleanupStep(Head(names), s))

CleanedForm(s) == ApplySteps(<<"a", "b", "c", "d", "e", "f">>, s)

\* C4: the rendered text is (a), (b), (c), (d), (e), (f) applied in this order
\* to the tag-removed text, and the cleaned form of the cited text itself when
\* every reference is selected
RenderIsOrderedCleanup ==
  \A i \in DOMAIN savedCitations :
    LET s == savedCitations[i]
    IN /\ filteredText[i] = CleanedForm(RemoveTags(s.citedText, s.references))
       /\ (\A k \in DOMAIN s.references : s.references[k].isSelected)
            => filteredText[i] = CleanedForm(s.citedText)

\* every reference selected, one of them with a tag that occurs in the text,
\* and a text the cleanup changes
RenderIsOrderedCleanupWitness ==
  \E i \in DOMAIN savedCitations :
    LET s == savedCitations[i]
    IN /\ \A k \in DOMAIN s.references : s.references[k].isSelected
       /\ \E k \in DOMAIN s.references :
            Usable(s.references[k])
              /\ Includes(s.citedText, EffectiveTag(s.references[k]))
       /\ filteredText[i] # s.citedText
       /\ filteredText[i] # <<>>

\* C5: toggling a reference whose tag is absent, empty or blank leaves the
\* rendered text as it is and keeps the reference in the list
UntaggedToggleChangesNothing ==
  \A i \in DOMAIN savedCitations :
    \A k \in DOMAIN savedCitations[i].references :
      LET s == savedCitations[i]
          after == ToggleIn(savedCitations, s.timestamp, s.references[k].id)
      IN ~Usable(s.references[k]) =>
           /\ RenderAll(after) = filteredText
           /\ Len(after[i].references) = Len(s.references)
           /\ after[i].references[k].id = s.references[k].id
           /\ after[i].references[k].citationTag = s.references[k].citationTag

\* a blank-tagged reference has been deselected in a text that holds blanks,
\* next to a deselected reference whose tag was removed
UntaggedToggleWitness ==
  \E s \in Sessions : \E k, m \in DOMAIN s.references :
    /\ s.references[k].citationTag = Blank
    /\ ~s.references[k].isSelected
    /\ Includes(s.citedText, Blank)
    /\ Usable(s.references[m])
    /\ ~s.references[m].isSelected
    /\ Includes(s.citedText, EffectiveTag(s.references[m]))

\* C6: when two references share a tag and at least one of them is
\* deselected, no occurrence of the tag is left in the rendered text or in the
\* text handed to the cleanup step, whatever the selection of the other
SharedTagRemoved ==
  \A i \in DOMAIN savedCitations :
    LET s == savedCitations[i]
    IN \A k, m \in DOMAIN s.references :
         (/\ k # m
          /\ Usable(s.references[k])
          /\ EffectiveTag(s.references[k]) = EffectiveTag(s.references[m])
          /\ ~s.references[k].isSelected)
           => /\ ~Includes(RemoveTags(s.citedText, s.references),
                           EffectiveTag(s.references[k]))
              /\ ~Includes(filteredText[i], EffectiveTag(s.references[k]))

(***************************************************************************)
(* Properties of response parsing.                                         *)
(***************************************************************************)
Settled == outcome.kind \in {"resolved", "rejected"}

HasSentinel == Includes(fullResponse, <<Sentinel>>)

\* the text processCitations searches for the array
ScannedText == IF HasSentinel THEN AfterSentinel(fullResponse) ELSE fullResponse

\* the narrative a response resolves with when its text is cited
ShownText(cited) == IF cited # <<>> THEN cited ELSE NoResultText

\* C7: whatever follows the narrative, the parse step resolves with a
\* narrative and a reference list; it never throws
ParseNeverRaises ==
  Settled => /\ outcome.kind = "resolved"
             /\ DOMAIN outcome.references = 1..Len(outcome.references)

\* is position i of the text inside a string literal
InsideString(text, i) ==
  Cardinality({k \in 1..(i - 1) : text[k] = Quote}) % 2 = 1

\* the balanced-bracket scan of the specification: from the first '[' outside
\* a string literal to where the depth of brackets outside string literals is
\* zero again
BalancedSpan(text) ==
  LET outside == {k \in 1..Len(text) : ~InsideString(text, k)}
      opens == {k \in outside : text[k] \in {"[", "{"}}
      closes == {k \in outside : text[k] \in {"]", "}"}}
      starts == {k \in outside : text[k] = "["}
      first == IF starts = {} THEN 0
               ELSE CHOOSE k \in starts : \A h \in starts : k <= h
      depth(j) == Cardinality({k \in opens : first <= k /\ k <= j})
                    - Cardinality({k \in closes : first <= k /\ k <= j})
      ends == {j \in first..Len(text) : depth(j) = 0}
  IN IF first = 0 \/ ends = {} THEN NoSpan
     ELSE [found |-> TRUE, first |-> first,
           last |-> CHOOSE j \in ends : \A h \in ends : j <= h]

\* C9: the span taken from the text is the balanced one
ExtractedSpanBalanced ==
  Settled => extractJsonArray(ScannedText) = BalancedSpan(ScannedText)

\* the spans of the text that are JSON arrays of one or more records
RecordArraySpans(text) ==
  {sp \in {[found |-> TRUE, first |-> a, last |-> b] :
             a \in {k \in 1..Len(text) : text[k] = "["},
             b \in {k \in 1..Len(text) : text[k] = "]"}} :
     /\ sp.first < sp.last
     /\ LET r == JSONParse(SpanText(text, sp))
        IN r.ok /\ r.val.v # <<>> /\ \A k \in DOMAIN r.val.v : r.val.v[k].t = "obj"}

\* the first of them, and the longest that starts there
RecordArraySpan(text) ==
  LET spans == RecordArraySpans(text)
  IN CHOOSE sp \in spans :
       \A other \in spans :
         \/ sp.first < other.first
         \/ sp.first = other.first /\ sp.last >= other.last

\* C8: with a sentinel, the narrative is the text before it, a label at its
\* start stripped, trimmed (the fixed message when nothing is left); and no
\* reference comes out of a payload that holds no JSON array of records
SentinelNarrative ==
  (Settled /\ HasSentinel /\ outcome.kind = "resolved") =>
    /\ outcome.citedText
         = ShownText(Trim(StripLabelAnchored(TrimStart(BeforeSentinel(fullResponse)))))
    /\ (RecordArraySpans(ScannedText) = {}) => (outcome.references = <<>>)

\* C10: without a sentinel, the narrative is the text before the array of
\* records and the references are the valid records of exactly that array
NoSentinelNarrative ==
  (Settled /\ ~HasSentinel /\ RecordArraySpans(fullResponse) # {}) =>
    LET sp == RecordArraySpan(fullResponse)
    IN /\ outcome.kind = "resolved"
       /\ outcome.citedText
            = ShownText(Trim(StripLabel(SubSeq(fullResponse, 1, sp.first - 1))))
       /\ \E random \in [1..(MaxElems + 1) -> RandomIds] :
            outcome.references
              = FilterMap(JSONParse(SpanText(fullResponse, sp)).val.v, random, 1)

\* C11: without a sentinel and without an array span, the narrative is the
\* whole text trimmed (the fixed message when nothing is left) and there is
\* no reference
NoSpanNarrative ==
  (Settled /\ ~HasSentinel /\ ~BalancedSpan(fullResponse).found) =>
    /\ outcome.kind = "resolved"
    /\ outcome.citedText = ShownText(Trim(fullResponse))
    /\ outcome.references = <<>>

\* the same for the texts in which extractJsonArray finds no span
NoSpanNarrativeNaive ==
  (Settled /\ ~HasSentinel /\ ~extractJsonArray(fullResponse).found) =>
    /\ outcome.kind = "resolved"
    /\ outcome.citedText = ShownText(Trim(fullResponse))
    /\ outcome.references = <<>>

(***************************************************************************)
(* Properties of reference validation.                                     *)
(***************************************************************************)
\* the array the response decodes to
Decoded == SplitResponse(fullResponse).rawReferences

\* a field that is a string of one or more characters
NonEmptyField(ref, key) ==
  LET val == GetProp(ref, key) IN val.t = "str" /\ val.v # <<>>

\* the validity rule of the specification
ValidRecord(ref) ==
  /\ NonEmptyField(ref, "title")
  /\ NonEmptyField(ref, "originalSourceSentence") \/ NonEmptyField(ref, "snippet")
  /\ NonEmptyField(ref, "citationTag")

RECURSIVE TitlesOfValid(_, _)
TitlesOfValid(raw, i) ==
  IF i > Len(raw) THEN <<>>
  ELSE IF ValidRecord(raw[i])
  THEN <<GetProp(raw[i], "title").v>> \o TitlesOfValid(raw, i + 1)
  ELSE TitlesOfValid(raw, i + 1)

\* C12: the records kept are those with a title, a citation tag and evidence
\* in originalSourceSentence or in snippet
RecordKeptRule ==
  (Settled /\ outcome.kind = "resolved" /\ Decoded.t = "arr") =>
    [k \in DOMAIN outcome.references |-> outcome.references[k].title]
      = TitlesOfValid(Decoded.v, 1)

\* what validation makes of each element taken on its own, in order
RECURSIVE PerRecord(_, _, _)
PerRecord(raw, random, i) ==
  IF i > Len(raw) THEN <<>>
  ELSE FilterMap(<<raw[i]>>, <<random[i]>>, 1) \o PerRecord(raw, random, i + 1)

\* C13: every element of the decoded array is kept or dropped on its own: the
\* references are what each element yields, in the order of the array, and no
\* element makes validation fail
ValidationPerRecord ==
  (Settled /\ Decoded.t = "arr") =>
    /\ outcome.kind = "resolved"
    /\ \E random \in [1..(MaxElems + 1) -> RandomIds] :
         outcome.references = PerRecord(Decoded.v, random, 1)

\* C14: the ids of the references of a result are pairwise distinct
IdsDistinct ==
  (Settled /\ outcome.kind = "resolved") =>
    \A a, b \in DOMAIN outcome.references :
      a # b => outcome.references[a].id # outcome.references[b].id

(***************************************************************************)
(* Round trip: a result written out again in the format of the response.   *)
(***************************************************************************)
\* the decimal digits of a natural number
RECURSIVE NatDigits(_)
NatDigits(n) ==
  IF n < 10 THEN <<ToString(n)>>
  ELSE NatDigits(n \div 10) \o <<ToString(n % 10)>>

\* the member of a string field, none when the field is undefined
StrMember(key, chars) ==
  IF chars = Undefined THEN <<>> ELSE <<Member(key, JStr(chars))>>

\* JSON.stringify of a reference
SerializeReference(ref) ==
  JObject(<<Member("id", NatDigits(ref.id))>>
            \o StrMember("title", ref.title)
            \o StrMember("citationTag", ref.citationTag)
            \o StrMember("originalSourceSentence", ref.originalSourceSentence)
            \o StrMember("snippet", ref.snippet)
            \o <<Member("isSelected", <<"true">>)>>)

\* narrative, sentinel line, array of the references
Serialize(narrative, references) ==
  narrative \o <<"\n", Sentinel, "\n">>
    \o JArray([k \in DOMAIN references |-> SerializeReference(references[k])])

\* the response is a narrative, the sentinel and a JSON array of records
\* that are valid for the specification and for the filter callback
WellFormed ==
  /\ HasSentinel
  /\ LET r == JSONParse(AfterSentinel(fullResponse))
     IN /\ r.ok
        /\ r.val.t = "arr"
        /\ \A k \in DOMAIN r.val.v :
             ValidRecord(r.val.v[k]) /\ KeepsRecord(r.val.v[k])

\* C16: a well-formed response, parsed, written out again in the same format
\* and parsed again, gives the same narrative and the same references
RoundTrip ==
  (Settled /\ WellFormed) =>
    /\ outcome.kind = "resolved"
    /\ \A random \in [1..(MaxElems + 1) -> RandomIds] :
         LET again == processCitations(InputText,
                        Serialize(outcome.citedText, outcome.references), random)
         IN /\ again.kind = "resolved"
            /\ again.citedText = outcome.citedText
            /\ again.references = outcome.references

\* the same for the well-formed responses whose records carry an id and whose
\* narrative holds the label at most once
RoundTripWithIds ==
  (/\ Settled
   /\ WellFormed
   /\ \A k \in DOMAIN Decoded.v : TruthyVal(GetProp(Decoded.v[k], "id"))
   /\ LabelFrom(StripLabel(BeforeSentinel(fullResponse)), 1) = 0) =>
    /\ outcome.kind = "resolved"
    /\ \A random \in [1..(MaxElems + 1) -> RandomIds] :
         LET again == processCitations(InputText,
                        Serialize(outcome.citedText, outcome.references), random)
         IN /\ again.kind = "resolved"
            /\ again.citedText = outcome.citedText
            /\ again.references = outcome.references

(***************************************************************************)
(* Properties of the session history.                                      *)
(***************************************************************************)
TimestampsOf(sessions) == [i \in DOMAIN sessions |-> sessions[i].timestamp]

\* a step that puts a session into the history
AddsSession == Len(savedCitations') > Len(savedCitations)

\* C15: every reference of a session that has just been created is selected,
\* and its first rendering removes no tag: it is the cleanup of the cited text
NewSessionAllSelected ==
  [][AddsSession =>
       LET s == savedCitations'[1]
       IN /\ \A k \in DOMAIN s.references : s.references[k].isSelected
          /\ RemoveTags(s.citedText, s.references) = s.citedText
          /\ filteredText'[1] = Cleanup(s.citedText)]_vars

\* a session has just been created whose references are cited in its text
NewSessionWitness ==
  /\ status = "COMPLETED"
  /\ savedCitations # <<>>
  /\ selectedSessionTimestamp = savedCitations[1].timestamp
  /\ Len(savedCitations[1].references) = 2
  /\ \A k \in DOMAIN savedCitations[1].references :
       /\ savedCitations[1].references[k].isSelected
       /\ Includes(savedCitations[1].citedText,
                   savedCitations[1].references[k].citationTag)
       /\ Includes(filteredText[1], savedCitations[1].references[k].citationTag)

\* a step in which a call of processCitations settles
CallSettles == inFlight' = inFlight - 1

\* C18: the history never shrinks and is never reordered; a cite action that
\* succeeds, and nothing else, puts one session in front of the others, which
\* stay as they are; the timestamps do not increase from front to back
HistoryAppendOnly ==
  [][/\ Len(savedCitations') >= Len(savedCitations)
     /\ (CallSettles /\ outcome'.kind = "resolved")
          => /\ Len(savedCitations') = Len(savedCitations) + 1
             /\ Tail(savedCitations') = savedCitations
     /\ ~(CallSettles /\ outcome'.kind = "resolved")
          => TimestampsOf(savedCitations') = TimestampsOf(savedCitations)
     /\ \A i, j \in DOMAIN savedCitations' :
          i < j => savedCitations'[i].timestamp >= savedCitations'[j].timestamp]_vars

\* two sessions created at different times, a reference of the older one
\* deselected after the newer one was created
HistoryWitness ==
  /\ Len(savedCitations) = 2
  /\ savedCitations[1].timestamp > savedCitations[2].timestamp
  /\ \E k \in DOMAIN savedCitations[2].references :
       ~savedCitations[2].references[k].isSelected
  /\ \E k \in DOMAIN savedCitations[1].references :
       ~savedCitations[1].references[k].isSelected

\* C19: when the call rejects, the handler leaves the sessions and the
\* selected session as they were, sets the error message and the status ERROR
FailedCiteKeepsSessions ==
  [][(CallSettles /\ outcome'.kind = "rejected")
       => /\ savedCitations' = savedCitations
          /\ filteredText' = filteredText
          /\ selectedSessionTimestamp' = selectedSessionTimestamp
          /\ error' \notin {Null, ""}
          /\ status' = "ERROR"]_vars

\* a call has failed while a session was saved and selected
FailedCiteWitness ==
  /\ status = "ERROR"
  /\ error = DefaultError
  /\ outcome.kind = "rejected"
  /\ savedCitations # <<>>
  /\ selectedSessionTimestamp = savedCitations[1].timestamp

\* C20: no two sessions of the history carry the same timestamp, so that a
\* timestamp addresses one session
TimestampIsIdentity ==
  \A i, j \in DOMAIN savedCitations :
    i # j => savedCitations[i].timestamp # savedCitations[j].timestamp

(***************************************************************************)
(* Properties of the objects of a toggle.                                  *)
(***************************************************************************)
\* C17: a toggle changes no object that existed before it: the former
\* history, with its sessions and references, has the value it had; the new
\* history is what the toggle makes of it, and a session whose value changed
\* is a new object
ToggleCopiesOnWrite ==
  [][/\ \A a \in DOMAIN heap : a \in DOMAIN heap' /\ heap'[a] = heap[a]
     /\ Deref(heap', root) = savedCitations
     /\ Deref(heap', root') = savedCitations'
     /\ \A i \in DOMAIN savedCitations :
          savedCitations'[i] # savedCitations[i]
            => heap'[root'].items[i] \notin DOMAIN heap]_vars

\* a reference has been deselected, and the reference object it was copied
\* from is still there, selected
ToggleCopiesWitness ==
  /\ root # 0
  /\ \E i \in DOMAIN savedCitations : \E k \in DOMAIN savedCitations[i].references :
       /\ ~savedCitations[i].references[k].isSelected
       /\ \E a \in DOMAIN heap :
            /\ heap[a].kind = "reference"
            /\ heap[a].isSelected
            /\ heap[a].id = savedCitations[i].references[k].id
            /\ a # heap[heap[heap[root].items[i]].references].items[k]

(***************************************************************************)
(* Properties of queued updates.                                           *)
(***************************************************************************)
\* the number of updaters applied so far
Applied == Len(log) - Len(queue)

\* the place in the log of the cite that created the session at place i of
\* the history, 0 for a session of the first history
CreatedAt(sessions, i) ==
  LET cites == {n \in 1..Applied : log[n].kind = "cite"}
  IN IF i > Cardinality(cites) THEN 0
     ELSE CHOOSE n \in cites :
            Cardinality({m \in cites : m > n}) = i - 1

\* the selection the session at place i was created with
CreatedSelected(sessions, i, k) ==
  IF CreatedAt(sessions, i) = 0
  THEN QueueHistory[i - (Len(sessions) - Len(QueueHistory))].references[k].isSelected
  ELSE log[CreatedAt(sessions, i)].session.references[k].isSelected

\* the toggles applied for a reference since its session was created
TogglesFor(sessions, i, k) ==
  {n \in (CreatedAt(sessions, i) + 1)..Applied :
     /\ log[n].kind = "toggle"
     /\ log[n].timestamp = sessions[i].timestamp
     /\ log[n].id = sessions[i].references[k].id}

\* the toggles applied that were issued from the checkbox of a reference
ClicksFor(sessions, i, k) ==
  {n \in 1..Applied :
     /\ log[n].kind = "toggle"
     /\ log[n].card = Len(sessions) - i
     /\ log[n].box = k}

\* C21: what is rendered is the history after a whole number of the updates
\* issued, in the order of issue, the rest of them waiting in the queue; no
\* toggle is lost: every reference is selected as it was created, flipped
\* once for every toggle applied that was issued for it
EveryToggleFlipsItsReference ==
  /\ Applied >= 0
  /\ queue = SubSeq(log, Applied + 1, Len(log))
  /\ savedCitations = ApplyUpdates(QueueHistory, SubSeq(log, 1, Applied))
  /\ filteredText = RenderAll(savedCitations)
  /\ \A i \in DOMAIN savedCitations : \A k \in DOMAIN savedCitations[i].references :
       savedCitations[i].references[k].isSelected
         = (CreatedSelected(savedCitations, i, k)
              = (Cardinality(ClicksFor(savedCitations, i, k)) % 2 = 0))

\* the same with a toggle counted for every reference that its timestamp and
\* id name
QueuedTogglesApplied ==
  /\ Applied >= 0
  /\ queue = SubSeq(log, Applied + 1, Len(log))
  /\ savedCitations = ApplyUpdates(QueueHistory, SubSeq(log, 1, Applied))
  /\ filteredText = RenderAll(savedCitations)
  /\ \A i \in DOMAIN savedCitations : \A k \in DOMAIN savedCitations[i].references :
       savedCitations[i].references[k].isSelected
         = (CreatedSelected(savedCitations, i, k)
              = (Cardinality(TogglesFor(savedCitations, i, k)) % 2 = 0))

\* toggles of both references of a session and a cite completion were queued
\* together and have been applied
QueuedTogglesWitness ==
  /\ queue = <<>>
  /\ Len(log) = MaxIssued
  /\ Len(savedCitations) = 2
  /\ \E n \in 1..(Len(log) - 1) :
       /\ log[n].kind = "toggle"
       /\ log[n + 1].kind = "toggle"
       /\ log[n].seen = log[n + 1].seen
       /\ log[n].id # log[n + 1].id
  /\ \A k \in DOMAIN savedCitations[2].references :
       ~savedCitations[2].references[k].isSelected

(***************************************************************************)
(* Properties of getWordDiff.                                              *)
(***************************************************************************)
\* getWordDiff has returned
Diffed == diffSpans # <<>>

\* the tokens of a text: its words and the runs of white space between them,
\* after its markup is stripped
TokensOf(text) == SplitWhiteSpace(stripHtml(text))

IsWord(token) == \E k \in DOMAIN token : ~IsSpace(token[k])

\* the words of a text
WordsOf(text) == {TokensOf(text)[i] : i \in {j \in DOMAIN TokensOf(text) : IsWord(TokensOf(text)[j])}}

\* the output classifies the words of text, in order, all with one class
AllWordsClassified(text, className) ==
  /\ SelectSeq(diffSpans, LAMBDA sp : IsWord(sp.word))
       = [i \in DOMAIN SelectSeq(TokensOf(text), IsWord) |->
            [word |-> SelectSeq(TokensOf(text), IsWord)[i], className |-> className]]

\* C22: getWordDiff(T, T) classifies every word of T as unchanged
SameTextUnchanged ==
  (Diffed /\ oldStr = newStr) => AllWordsClassified(newStr, Unchanged)

\* a text with markup and two words was compared with itself
SameTextWitness ==
  /\ Diffed
  /\ oldStr = newStr
  /\ Cardinality(WordsOf(newStr)) = 2
  /\ stripHtml(newStr) # newStr

\* C23: getWordDiff("", T) classifies every word of T as added
EmptyBaselineAllAdded ==
  (Diffed /\ oldStr = <<>>) => AllWordsClassified(newStr, Added)

\* C24: for texts that are not empty, a word of the revised text is unchanged
\* if and only if the baseline has an equal word, anywhere and any number of
\* times, and added otherwise
MembershipHighlighter ==
  (Diffed /\ oldStr # <<>> /\ newStr # <<>>) =>
    /\ Len(diffSpans) = Len(TokensOf(newStr))
    /\ \A i \in DOMAIN diffSpans :
         /\ diffSpans[i].word = TokensOf(newStr)[i]
         /\ IsWord(diffSpans[i].word) =>
              /\ diffSpans[i].className \in {Unchanged, Added}
              /\ diffSpans[i].className = Unchanged
                    <=> diffSpans[i].word \in WordsOf(oldStr)

\* a word of the revised text is unchanged although the baseline holds it at
\* another place, and another word is added
MembershipWitness ==
  /\ Diffed
  /\ oldStr # <<>>
  /\ \E i, k \in DOMAIN diffSpans :
       /\ diffSpans[i].className = Unchanged
       /\ diffSpans[i].word \in WordsOf(oldStr)
       /\ (i \notin DOMAIN TokensOf(oldStr)
             \/ TokensOf(oldStr)[i] # diffSpans[i].word)
       /\ diffSpans[k].className = Added

\* the spans put together
RECURSIVE Concat(_)
Concat(words) == IF words = <<>> THEN <<>> ELSE Head(words) \o Concat(Tail(words))

\* C25: the words of the spans are the tokens of the stripped revised text in
\* order, the runs of white space among them unclassified, together they
\* give the stripped revised text, and no word that only the baseline has is
\* among them
OutputReproducesRevised ==
  Diffed =>
    /\ [i \in DOMAIN diffSpans |-> diffSpans[i].word] = TokensOf(newStr)
    /\ \A i \in DOMAIN diffSpans :
         ~IsWord(diffSpans[i].word) => diffSpans[i].className = Plain
    /\ Concat([i \in DOMAIN diffSpans |-> diffSpans[i].word]) = stripHtml(newStr)
    /\ \A i \in DOMAIN diffSpans :
         diffSpans[i].word \notin (WordsOf(oldStr) \ WordsOf(newStr))

\* the same for a baseline that is not empty
OutputReproducesRevisedOfBaseline ==
  (Diffed /\ oldStr # <<>>) => OutputReproducesRevised

(***************************************************************************)
(* Properties of a toggle.                                                 *)
(***************************************************************************)
\* the references a timestamp and an id name
PlacesNamed(sessions, ts, id) ==
  {p \in UNION {{<<i, k>> : k \in DOMAIN sessions[i].references} :
                 i \in DOMAIN sessions} :
     sessions[p[1]].timestamp = ts /\ sessions[p[1]].references[p[2]].id = id}

\* the history with the selection of the reference at place p flipped and
\* nothing else changed
FlippedAt(sessions, p) ==
  [sessions EXCEPT ![p[1]].references[p[2]].isSelected = ~@]

\* what a toggle is said to do to the history
FlipsExactlyOne(ts, id) ==
  IF PlacesNamed(savedCitations, ts, id) = {}
  THEN savedCitations' = savedCitations
  ELSE \E p \in PlacesNamed(savedCitations, ts, id) :
         savedCitations' = FlippedAt(savedCitations, p)

\* the timestamps and ids a toggle may be called with
ToggleTimestamps == 0..MaxClock

ToggleIds == 0..2

\* C26: toggleReferenceSelection(ts, id) flips the selection of exactly one
\* reference, the one with that id in the session with that timestamp, and
\* changes nothing else in the history; when the timestamp or the id is not
\* found the history is unchanged
ToggleFlipsExactlyOne ==
  [][\A ts \in ToggleTimestamps, id \in ToggleIds :
       toggleReferenceSelection(ts, id) => FlipsExactlyOne(ts, id)]_vars

\* the timestamps and ids of a history, and one of each that it does not hold
TimestampsIn(sessions) ==
  {0} \cup {sessions[i].timestamp : i \in DOMAIN sessions}

IdsIn(sessions) ==
  {0} \cup UNION {{sessions[i].references[k].id : k \in DOMAIN sessions[i].references} :
                   i \in DOMAIN sessions}

\* two toggles of the same reference give back the sessions and what is
\* rendered from them, and one toggle leaves citedText as it is
RestoredBy(once, twice) ==
  /\ twice = savedCitations
  /\ RenderAll(twice) = filteredText
  /\ \A i \in DOMAIN once : once[i].citedText = savedCitations[i].citedText

\* C27: toggling the same reference of the same session twice restores the
\* reference list and the rendered text; the renderer works from citedText,
\* which a toggle does not change
ToggleTwiceRestores ==
  \A ts \in TimestampsIn(savedCitations), id \in IdsIn(savedCitations) :
    RestoredBy(ToggleIn(savedCitations, ts, id),
               ToggleIn(ToggleIn(savedCitations, ts, id), ts, id))

\* a reference whose tag stands in the text is deselected, its tag is not
\* rendered, and toggling it again changes what is rendered
ToggleTwiceWitness ==
  \E i \in DOMAIN savedCitations : \E k \in DOMAIN savedCitations[i].references :
    /\ ~savedCitations[i].references[k].isSelected
    /\ Truthy(savedCitations[i].references[k].citationTag)
    /\ Includes(savedCitations[i].citedText, savedCitations[i].references[k].citationTag)
    /\ ~Includes(filteredText[i], savedCitations[i].references[k].citationTag)
    /\ RenderAll(ToggleIn(savedCitations, savedCitations[i].timestamp,
                          savedCitations[i].references[k].id)) # filteredText

(***************************************************************************)
(* Properties of status.                                                   *)
(***************************************************************************)
\* C28: while a call of processCitations started by handleCiteAction has not
\* settled, status is SEARCHING, and status is COMPLETED or ERROR only when
\* no call is outstanding
SearchingWhileInFlight ==
  /\ inFlight > 0 => status = "SEARCHING"
  /\ status \in {"COMPLETED", "ERROR"} => inFlight = 0

\* the first half alone
InFlightIsSearching == inFlight > 0 => status = "SEARCHING"

\* at most one call is outstanding
OneInFlight == inFlight <= 1

(***************************************************************************)
(* The form of the rendered text.                                          *)
(***************************************************************************)
\* no run of white space, no empty group, no comma that another comma
\* follows (white space between them or not), no white space before a comma
\* or a period, no white space at either end
InCleanForm(text) ==
  /\ \A i \in 1..(Len(text) - 1) :
       /\ ~(IsSpace(text[i]) /\ IsSpace(text[i + 1]))
       /\ ~(text[i] = "(" /\ text[i + 1] = ")")
       /\ ~(text[i] = "[" /\ text[i + 1] = "]")
       /\ ~(text[i] = "," /\ SkipSpace(text, i + 1) <= Len(text)
                          /\ text[SkipSpace(text, i + 1)] = ",")
       /\ ~(IsSpace(text[i]) /\ text[i + 1] \in {",", "."})
  /\ text # <<>> => ~IsSpace(text[1]) /\ ~IsSpace(text[Len(text)])

\* C29: what getFilteredCitedText returns is in clean form
RenderedTextClean ==
  \A i \in DOMAIN filteredText : InCleanForm(filteredText[i])

(***************************************************************************)
(* Properties of the exports.                                              *)
(***************************************************************************)
\* the places of the elements of a sequence that are to be kept
KeptPlaces(seq, Keep(_)) == {i \in DOMAIN seq : Keep(seq[i])}

\* the place of the n-th of them
NthKept(seq, Keep(_), n) ==
  CHOOSE i \in KeptPlaces(seq, Keep) :
    Cardinality({j \in KeptPlaces(seq, Keep) : j < i}) = n - 1

\* picked holds exactly the elements of seq that are to be kept, in their
\* order, each as Image gives it
PicksExactly(picked, seq, Keep(_), Image(_, _)) ==
  /\ Len(picked) = Cardinality(KeptPlaces(seq, Keep))
  /\ \A n \in DOMAIN picked : Image(picked[n], seq[NthKept(seq, Keep, n)])

IsSelected(ref) == ref.isSelected

HasSelected(session) ==
  \E k \in DOMAIN session.references : session.references[k].isSelected

SameReference(handed, ref) == handed = ref

\* a session is handed over with its selected references and nothing else
\* changed
SessionOfSelected(handed, session) ==
  /\ PicksExactly(handed.references, session.references, IsSelected, SameReference)
  /\ [handed EXCEPT !.references = session.references] = session

\* the sessions a scope names
ScopeSessions(scope) ==
  IF scope = "ALL" THEN savedCitations
  ELSE IF savedCitations = <<>> THEN <<>>
  ELSE IF \E i \in DOMAIN savedCitations :
            savedCitations[i].timestamp = selectedSessionTimestamp
       THEN <<savedCitations[CHOOSE i \in DOMAIN savedCitations :
                /\ savedCitations[i].timestamp = selectedSessionTimestamp
                /\ \A j \in 1..(i - 1) :
                     savedCitations[j].timestamp # selectedSessionTimestamp]>>
  ELSE <<savedCitations[1]>>

\* what an evidence export of a scope does
EvidenceOfSelected(format, scope) ==
  /\ savedCitations' = savedCitations
  /\ IF \E i \in DOMAIN ScopeSessions(scope) : HasSelected(ScopeSessions(scope)[i])
     THEN /\ download'.kind = "evidence"
          /\ download'.format = format
          /\ PicksExactly(download'.targets, ScopeSessions(scope), HasSelected,
                          SessionOfSelected)
     ELSE download' = download

\* the records of an EndNote file are those of the references
RECURSIVE RecordsOf(_, _)
RecordsOf(content, references) ==
  IF references = <<>> THEN content = <<>>
  ELSE /\ Len(content) >= Len(EnwRecord(Head(references)))
       /\ SubSeq(content, 1, Len(EnwRecord(Head(references))))
            = EnwRecord(Head(references))
       /\ RecordsOf(Tail_(content, Len(EnwRecord(Head(references))) + 1),
                    Tail(references))

\* what the EndNote export of the card at place i does
EnwOfSelected(i) ==
  /\ savedCitations' = savedCitations
  /\ download'.kind = "enw"
  /\ \E picked \in SeqsUpTo({savedCitations[i].references[k] :
                               k \in DOMAIN savedCitations[i].references},
                             Len(savedCitations[i].references)) :
       /\ PicksExactly(picked, savedCitations[i].references, IsSelected,
                       SameReference)
       /\ RecordsOf(download'.content, picked)

\* C30: an evidence export hands over, for every session of its scope that
\* has a selected reference, the session with exactly its selected references
\* in their order, and no other session; it downloads nothing when no such
\* session is left; the EndNote export of a card holds exactly the records
\* of its selected references; no export changes the saved sessions
ExportsOnlySelected ==
  [][/\ \A format \in {"MD", "DOC"}, scope \in {"SELECTED", "ALL"} :
          handleExportResources(format, scope) => EvidenceOfSelected(format, scope)
     /\ \A i \in DOMAIN savedCitations :
          exportENW(i) => EnwOfSelected(i)]_vars

\* an export of all sessions left out a session without selected reference
\* and a deselected reference of the other session
ExportsWitness ==
  /\ download.kind = "evidence"
  /\ download.scope = "ALL"
  /\ Len(savedCitations) = 2
  /\ Len(download.targets) = 1
  /\ Len(download.targets[1].references) = 1
  /\ ~HasSelected(savedCitations[2])
  /\ Len(SelectedOf(savedCitations[1].references)) = 1

====
